---- MODULE Spec2Model ----
(***************************************************************************)
(* Model of the SVA database administration API: the relational store, the *)
(* REST handlers of app/api/clients.py and app/api/databases.py, the       *)
(* deferred backup work, and the Oracle / SQL Server adapters.             *)
(*                                                                         *)
(* A handler that touches the store once is one action.  A handler that    *)
(* reads the store and later writes it (check-then-act) is two actions,    *)
(* with its position kept in pc[r] and its locals in local[r], so that     *)
(* concurrent requests interleave between the read and the write.          *)
(***************************************************************************)
EXTENDS Integers, Sequences, FiniteSets, TLC

\* ------------------------------------------------------------------ bounds
MaxReqs == 2        \* concurrent check-then-act requests in flight
MaxClients == 2     \* client ids the sequence hands out
MaxDatabases == 2   \* database ids the sequence hands out
MaxTasks == 2       \* deferred backup tasks ever scheduled
MaxTime == 2        \* clock ticks, one per hour
MaxRecords == 3     \* monitoring record ids the sequence hands out
MaxHours == 2       \* largest hours parameter of a performance request

Reqs == 1..MaxReqs
Names == {"a", "b"}
DbNames == {"db", "erp"}
ClientIds == 1..MaxClients
DatabaseIds == 1..MaxDatabases

\* Python's None, and a present optional value.
None == <<>>
Some(v) == <<v>>

\* ------------------------------------------------------------------ state
VARIABLES
    clients,      \* table clients: set of rows [id, name, is_active]
    databases,    \* table database_instances: set of rows
    backups,      \* table backups: set of rows
    monitoring_records,  \* table monitoring_records: set of rows
    clientSeq,    \* last id handed out by clients.id
    databaseSeq,  \* last id handed out by database_instances.id
    backupSeq,    \* last id handed out by backups.id
    monitoringSeq,  \* last id handed out by monitoring_records.id
    pc,           \* pc[r]: position of the request running in slot r
    local,        \* local[r]: the locals of that request
    tasks,        \* deferred backup work, in scheduling order
    sessions,     \* sessions[t]: the session get_db gave the request that
                  \* scheduled tasks[t], which start_backup hands to the task
    now,          \* the wall clock
    response,     \* the latest response sent to a caller
    call          \* the latest adapter call: manager, method, input, outcome

store == <<clients, databases, backups, monitoring_records,
          clientSeq, databaseSeq, backupSeq, monitoringSeq>>
vars == <<clients, databases, backups, monitoring_records,
          clientSeq, databaseSeq, backupSeq, monitoringSeq,
          pc, local, tasks, sessions, now, response, call>>

\* ------------------------------------------------------------------ enums
\* DatabaseType
ORACLE == "oracle"
SQLSERVER == "sqlserver"
DatabaseType == {ORACLE, SQLSERVER}

\* Environment
DEVELOPMENT == "development"
STAGING == "staging"
PRODUCTION == "production"
Environment == {DEVELOPMENT, STAGING, PRODUCTION}

\* BackupStatus
SCHEDULED == "scheduled"
RUNNING == "running"
COMPLETED == "completed"
FAILED == "failed"
CANCELLED == "cancelled"
BackupStatus == {SCHEDULED, RUNNING, COMPLETED, FAILED, CANCELLED}

\* BackupType.FULL
FULL == "full"

\* ------------------------------------------------------------------ rows
\* Client(**obj_in_data) as inserted with a fresh id.
Client(id, name, is_active) ==
    [id |-> id, name |-> name, is_active |-> is_active]

\* An Enum column stores the member's name and loads the member of that
\* name. The payload reaches it as the member's value (jsonable_encoder),
\* which the column looks up among its members: a str-mixin member equals
\* and hashes as its value.
Enum_members ==
    [ORACLE |-> ORACLE, SQLSERVER |-> SQLSERVER,
     DEVELOPMENT |-> DEVELOPMENT, STAGING |-> STAGING, PRODUCTION |-> PRODUCTION]
Enum_bind(value) == CHOOSE n \in DOMAIN Enum_members : Enum_members[n] = value
Enum_result(stored) == Enum_members[stored]

\* DatabaseInstance(**obj_in_data): last_backup and last_health_check have
\* no default and no writer, so a new row carries NULL in both; service_name
\* is NULL unless the payload names one.
DatabaseInstance(id, client_id, name, db_type, environment) ==
    [id |-> id, client_id |-> client_id, name |-> name,
     db_type |-> Enum_result(Enum_bind(db_type)),
     environment |-> Enum_result(Enum_bind(environment)), service_name |-> None,
     last_backup |-> None, last_health_check |-> None]

\* MonitoringRecord as a poll inserts it: timestamp is the server default
\* func.now().
MonitoringRecord(id, database_id, timestamp) ==
    [id |-> id, database_id |-> database_id, timestamp |-> timestamp]

\* ------------------------------------------------------------------ repository
\* CRUDBase.get: the row with that id, or None.
get(table, id) ==
    IF \E row \in table : row.id = id
    THEN Some(CHOOSE row \in table : row.id = id)
    ELSE None

\* CRUDClient.get_by_name: whether some row has that name (the handler only
\* tests the result for truth).
get_by_name(name) == \E row \in clients : row.name = name

\* ------------------------------------------------------------------ responses
\* A response: the handler, the request it answers, the status code, the body.
Response(op, req, code, body) == [op |-> op, req |-> req, code |-> code, body |-> body]
\* An adapter call: returned |-> <<value>> when it returned, raised |-> <<text>>
\* when it raised.
Call(manager, method, env, returned, raised) ==
    [manager |-> manager, method |-> method, env |-> env,
     returned |-> returned, raised |-> raised]
NoCall == Call("none", "none", [run |-> "none"], None, None)
NoLocal == [id |-> 0, name |-> "", is_active |-> FALSE, patch |-> <<>>, dirty |-> <<>>]

\* ------------------------------------------------------------------ CRUDBase
\* CRUDBase.create on clients as it would be if the payload's is_active were
\* dropped and the column default (True) stored instead.
CRUDBase_create_client_default(name, is_active) ==
    /\ clientSeq' = clientSeq + 1
    /\ clients' = clients \cup {Client(clientSeq + 1, name, TRUE)}

\* CRUDBase.create on clients: INSERT with the next id of the sequence.
CRUDBase_create_client(name, is_active) ==
    /\ clientSeq' = clientSeq + 1
    /\ clients' = clients \cup {Client(clientSeq + 1, name, is_active)}

\* CRUDBase.update, the loop: each field of the object that the patch has
\* is set on the object. The session marks as dirty the attributes that got
\* a value other than the loaded one.
CRUDBase_update_setattr(db_obj, update_data) ==
    LET changed == {f \in DOMAIN db_obj \cap DOMAIN update_data :
                        update_data[f] # db_obj[f]}
    IN [f \in changed |-> update_data[f]]

\* CRUDBase.update, the commit: the UPDATE writes the dirty columns and
\* leaves the others as the store has them now.
CRUDBase_update_commit(cur, dirty) ==
    [f \in DOMAIN cur |-> IF f \in DOMAIN dirty THEN dirty[f] ELSE cur[f]]

\* The partial updates a ClientUpdate can carry (exclude_unset=True).
ClientPatches ==
    {<<>>} \cup {[name |-> n] : n \in Names}
           \cup {[is_active |-> b] : b \in BOOLEAN}
           \cup {[name |-> n, is_active |-> b] : n \in Names, b \in BOOLEAN}

\* Requests that passed create_client's name check and have not inserted yet.
PendingCreates == Cardinality({r \in Reqs : pc[r] = "create_client"})

\* ------------------------------------------------------------------ app/api/clients.py
\* create_client (crud.py): the name check. A taken name answers 400.
create_client_check(r, name, is_active) ==
    /\ pc[r] = "idle"
    /\ clientSeq + PendingCreates < MaxClients
    /\ IF get_by_name(name)
       THEN /\ response' = Response("create_client",
                                     [name |-> name, is_active |-> is_active], 400, None)
            /\ UNCHANGED <<pc, local>>
       ELSE /\ pc' = [pc EXCEPT ![r] = "create_client"]
            /\ local' = [local EXCEPT ![r] =
                            [NoLocal EXCEPT !.name = name, !.is_active = is_active]]
            /\ UNCHANGED response
    /\ UNCHANGED <<store, tasks, now, call>>
    /\ UNCHANGED sessions

\* create_client (crud.py): client_crud.create after the check passed.
create_client(r) ==
    /\ pc[r] = "create_client"
    /\ CRUDBase_create_client(local[r].name, local[r].is_active)
    /\ response' = Response("create_client",
                            [name |-> local[r].name, is_active |-> local[r].is_active], 200,
                            Some(Client(clientSeq + 1, local[r].name, local[r].is_active)))
    /\ pc' = [pc EXCEPT ![r] = "idle"]
    /\ local' = [local EXCEPT ![r] = NoLocal]
    /\ UNCHANGED <<databases, backups, databaseSeq, backupSeq, tasks, now, call>>
    /\ UNCHANGED <<monitoring_records, monitoringSeq, sessions>>

\* create_client (main.py): client_crud.create with no check at all.
main_create_client(name, is_active) ==
    /\ clientSeq + PendingCreates < MaxClients
    /\ CRUDBase_create_client(name, is_active)
    /\ response' = Response("create_client", [name |-> name, is_active |-> is_active], 200,
                            Some(Client(clientSeq + 1, name, is_active)))
    /\ UNCHANGED <<databases, backups, databaseSeq, backupSeq, pc, local, tasks, now, call>>
    /\ UNCHANGED <<monitoring_records, monitoringSeq, sessions>>

\* update_client: client_crud.get, 404 when absent.
update_client_get(r, client_id, patch) ==
    /\ pc[r] = "idle"
    /\ IF get(clients, client_id) = None
       THEN /\ response' = Response("update_client", [id |-> client_id], 404, None)
            /\ UNCHANGED <<pc, local>>
       ELSE /\ pc' = [pc EXCEPT ![r] = "update_client"]
            /\ local' = [local EXCEPT ![r] =
                            [NoLocal EXCEPT !.id = client_id,
                                !.dirty = CRUDBase_update_setattr(
                                              get(clients, client_id)[1], patch)]]
            /\ UNCHANGED response
    /\ UNCHANGED <<store, tasks, now, call>>
    /\ UNCHANGED sessions

\* update_client: client_crud.update. A row deleted since the get makes the
\* flush (or the refresh) raise, which the framework answers with 500.
update_client(r) ==
    /\ pc[r] = "update_client"
    /\ LET cur == get(clients, local[r].id)
           new == CRUDBase_update_commit(cur[1], local[r].dirty)
       IN IF cur = None
          THEN /\ response' = Response("update_client", [id |-> local[r].id], 500, None)
               /\ UNCHANGED clients
          ELSE /\ clients' = (clients \ {cur[1]}) \cup {new}
               /\ response' = Response("update_client", [id |-> local[r].id], 200, Some(new))
    /\ pc' = [pc EXCEPT ![r] = "idle"]
    /\ local' = [local EXCEPT ![r] = NoLocal]
    /\ UNCHANGED <<databases, backups, clientSeq, databaseSeq, backupSeq, tasks, now, call>>
    /\ UNCHANGED <<monitoring_records, monitoringSeq, sessions>>

\* delete_client: client_crud.get, 404 when absent.
delete_client_get(r, client_id) ==
    /\ pc[r] = "idle"
    /\ IF get(clients, client_id) = None
       THEN /\ response' = Response("delete_client", [id |-> client_id], 404, None)
            /\ UNCHANGED <<pc, local>>
       ELSE /\ pc' = [pc EXCEPT ![r] = "delete_client"]
            /\ local' = [local EXCEPT ![r] =
                            [NoLocal EXCEPT !.id = client_id]]
            /\ UNCHANGED response
    /\ UNCHANGED <<store, tasks, now, call>>
    /\ UNCHANGED sessions

\* delete_client: client_crud.remove. Query.get answers from the session's
\* identity map, db.delete nulls client_id of the client's databases (the
\* relationship has no delete cascade), which NOT NULL rejects; with no
\* database the DELETE runs, matching no row if the client is already gone.
delete_client(r) ==
    /\ pc[r] = "delete_client"
    /\ IF \E d \in databases : d.client_id = local[r].id
       THEN /\ response' = Response("delete_client", [id |-> local[r].id], 500, None)
            /\ UNCHANGED clients
       ELSE /\ clients' = {c \in clients : c.id # local[r].id}
            /\ response' = Response("delete_client", [id |-> local[r].id], 200, None)
    /\ pc' = [pc EXCEPT ![r] = "idle"]
    /\ local' = [local EXCEPT ![r] = NoLocal]
    /\ UNCHANGED <<databases, backups, clientSeq, databaseSeq, backupSeq, tasks, now, call>>
    /\ UNCHANGED <<monitoring_records, monitoringSeq, sessions>>

\* ------------------------------------------------------------------ app/api/databases.py
\* create_database: database_crud.create. The INSERT draws the next id and
\* the foreign key on client_id rejects a client that does not exist.
create_database(client_id, name, db_type, environment) ==
    /\ databaseSeq < MaxDatabases
    /\ databaseSeq' = databaseSeq + 1
    /\ IF get(clients, client_id) = None
       THEN /\ response' = Response("create_database", [client_id |-> client_id], 500, None)
            /\ UNCHANGED databases
       ELSE /\ databases' = databases \cup
                    {DatabaseInstance(databaseSeq + 1, client_id, name, db_type, environment)}
            /\ response' = Response("create_database", [client_id |-> client_id], 200,
                    Some(DatabaseInstance(databaseSeq + 1, client_id, name, db_type,
                                          environment)))
    /\ UNCHANGED <<clients, backups, clientSeq, backupSeq, pc, local, tasks, now, call>>
    /\ UNCHANGED <<monitoring_records, monitoringSeq, sessions>>

\* The partial updates a DatabaseInstanceUpdate can carry for the columns
\* name and service_name (exclude_unset=True): a field is absent, null (None)
\* or a value (Some(v)). Both fields are Optional in the schema.
ServiceNames == {"orcl"}
DatabasePatches ==
    LET name == {None} \cup {Some(n) : n \in DbNames}
        service_name == {None} \cup {Some(n) : n \in ServiceNames}
    IN {<<>>} \cup {[name |-> n] : n \in name}
              \cup {[service_name |-> v] : v \in service_name}
              \cup {[name |-> n, service_name |-> v] : n \in name, v \in service_name}

\* The attributes of a loaded DatabaseInstance that such a patch can name,
\* each as an optional value.
DatabaseInstance_attributes(row) ==
    [name |-> Some(row.name), service_name |-> row.service_name]

\* Columns of database_instances declared nullable=False.
DatabaseInstance_not_null == {"name"}

\* update_database: database_crud.get, 404 when absent.
update_database_get(r, database_id, patch) ==
    /\ pc[r] = "idle"
    /\ IF get(databases, database_id) = None
       THEN /\ response' = Response("update_database", [id |-> database_id], 404, None)
            /\ UNCHANGED <<pc, local>>
       ELSE /\ pc' = [pc EXCEPT ![r] = "update_database"]
            /\ local' = [local EXCEPT ![r] =
                            [NoLocal EXCEPT !.id = database_id, !.patch = patch,
                                !.dirty = CRUDBase_update_setattr(
                                    DatabaseInstance_attributes(
                                        get(databases, database_id)[1]), patch)]]
            /\ UNCHANGED response
    /\ UNCHANGED <<store, tasks, sessions, now, call>>

\* update_database: database_crud.update. The UPDATE writes the dirty
\* columns; NULL in a NOT NULL column, or a row deleted since the get, makes
\* the commit raise, which the framework answers with 500.
update_database(r) ==
    /\ pc[r] = "update_database"
    /\ LET cur == get(databases, local[r].id)
           dirty == local[r].dirty
           new == [cur[1] EXCEPT
                     !.name = IF "name" \in DOMAIN dirty THEN dirty.name[1] ELSE @,
                     !.service_name = IF "service_name" \in DOMAIN dirty
                                      THEN dirty.service_name ELSE @]
       IN IF cur = None \/ \E f \in DOMAIN dirty \cap DatabaseInstance_not_null : dirty[f] = None
          THEN /\ response' = Response("update_database", [id |-> local[r].id], 500, None)
               /\ UNCHANGED databases
          ELSE /\ databases' = (databases \ {cur[1]}) \cup {new}
               /\ response' = Response("update_database", [id |-> local[r].id], 200, Some(new))
    /\ pc' = [pc EXCEPT ![r] = "idle"]
    /\ local' = [local EXCEPT ![r] = NoLocal]
    /\ UNCHANGED <<clients, backups, monitoring_records, clientSeq, databaseSeq, backupSeq,
                   monitoringSeq, tasks, sessions, now, call>>

\* delete_database: database_crud.get, 404 when absent.
delete_database_get(r, database_id) ==
    /\ pc[r] = "idle"
    /\ IF get(databases, database_id) = None
       THEN /\ response' = Response("delete_database", [id |-> database_id], 404, None)
            /\ UNCHANGED <<pc, local>>
       ELSE /\ pc' = [pc EXCEPT ![r] = "delete_database"]
            /\ local' = [local EXCEPT ![r] =
                            [NoLocal EXCEPT !.id = database_id]]
            /\ UNCHANGED response
    /\ UNCHANGED <<store, tasks, now, call>>
    /\ UNCHANGED sessions

\* delete_database: database_crud.remove. As for a client, the backups and
\* the monitoring records of the database would get database_id NULL, which
\* NOT NULL rejects.
delete_database(r) ==
    /\ pc[r] = "delete_database"
    /\ IF \E b \in backups \cup monitoring_records : b.database_id = local[r].id
       THEN /\ response' = Response("delete_database", [id |-> local[r].id], 500, None)
            /\ UNCHANGED databases
       ELSE /\ databases' = {d \in databases : d.id # local[r].id}
            /\ response' = Response("delete_database", [id |-> local[r].id], 200, None)
    /\ pc' = [pc EXCEPT ![r] = "idle"]
    /\ local' = [local EXCEPT ![r] = NoLocal]
    /\ UNCHANGED <<clients, backups, clientSeq, databaseSeq, backupSeq, tasks, now, call>>
    /\ UNCHANGED <<monitoring_records, monitoringSeq, sessions>>

\* ------------------------------------------------------------------ listing databases
\* The query parameters of GET /databases: each filter is absent (None) or
\* carries what the query string gave, which may be 0 or the empty string.
ClientIdParams == {None} \cup {Some(id) : id \in 0 .. MaxClients}
DbTypeParams == {None, Some("")} \cup {Some(t) : t \in DatabaseType}
EnvironmentParams == {None, Some(""), Some(STAGING), Some(PRODUCTION)}
SkipParams == {0, 1}
LimitParams == {1, 100}

\* Python's truth value of an optional int and of an optional str.
truthy_int(param) == param # None /\ param[1] # 0
truthy_str(param) == param # None /\ param[1] # ""

\* CRUDBase.get_multi: offset(skip).limit(limit) over the rows in id order.
get_multi(table, skip, limit) ==
    {row \in table :
        LET position == Cardinality({o \in table : o.id < row.id})
        IN skip <= position /\ position < skip + limit}

\* CRUDDatabaseInstance.get_by_client, get_by_type, get_by_environment
get_by_client(client_id) == {d \in databases : d.client_id = client_id}
get_by_type(db_type) == {d \in databases : d.db_type = db_type}
get_by_environment(environment) == {d \in databases : d.environment = environment}

\* get_databases: the if / elif chain over the parameters' truth values.
get_databases(skip, limit, db_type, environment, client_id) ==
    /\ response' = Response("get_databases",
                        [skip |-> skip, limit |-> limit, db_type |-> db_type,
                         environment |-> environment, client_id |-> client_id],
                        200,
                        Some(IF truthy_int(client_id) THEN get_by_client(client_id[1])
                             ELSE IF truthy_str(db_type) THEN get_by_type(db_type[1])
                             ELSE IF truthy_str(environment)
                                  THEN get_by_environment(environment[1])
                             ELSE get_multi(databases, skip, limit)))
    /\ UNCHANGED <<store, pc, local, tasks, sessions, now, call>>

\* ------------------------------------------------------------------ performance metrics
\* The scheduled poller appends one MonitoringRecord for a database, stamped
\* by the store; the foreign key on database_id refuses an absent database.
poll(database_id) ==
    /\ monitoringSeq < MaxRecords
    /\ monitoringSeq' = monitoringSeq + 1
    /\ IF get(databases, database_id) = None
       THEN UNCHANGED monitoring_records
       ELSE monitoring_records' = monitoring_records \cup
                {MonitoringRecord(monitoringSeq + 1, database_id, now)}
    /\ UNCHANGED <<clients, databases, backups, clientSeq, databaseSeq, backupSeq,
                   pc, local, tasks, sessions, now, response, call>>

\* The hours parameter: any integer, the window may be empty or reach back
\* before the first record.
Hours == -1 .. MaxHours

\* .order_by(MonitoringRecord.timestamp.desc()).all()
RECURSIVE order_by_timestamp_desc(_)
order_by_timestamp_desc(rows) ==
    IF rows = {}
    THEN <<>>
    ELSE LET newest == CHOOSE m \in rows : \A o \in rows : o.timestamp <= m.timestamp
         IN <<newest>> \o order_by_timestamp_desc(rows \ {newest})

\* The query as it would be without the filter on database_id.
query_metrics_any_database(database_id, start_time) ==
    order_by_timestamp_desc({m \in monitoring_records : m.timestamp >= start_time})

\* The query of get_performance_metrics.
query_metrics(database_id, start_time) ==
    order_by_timestamp_desc({m \in monitoring_records :
                                m.database_id = database_id /\ m.timestamp >= start_time})

\* get_performance_metrics: 404 when absent, else the records of the window.
get_performance_metrics(database_id, hours) ==
    /\ IF get(databases, database_id) = None
       THEN response' = Response("get_performance_metrics", [id |-> database_id], 404, None)
       ELSE response' = Response("get_performance_metrics", [id |-> database_id], 200,
                            Some([database_id |-> database_id,
                                  metrics |-> query_metrics(database_id, now - hours),
                                  period_hours |-> hours]))
    /\ UNCHANGED <<store, pc, local, tasks, sessions, now, call>>

\* ------------------------------------------------------------------ adapters: get_status
\* What the target engine does during one get_status call: where it fails
\* (nowhere, at connect, at the liveness query, at the metrics query), the
\* row of the metrics query (each column a number or NULL) and the measured
\* round trip.
Faults == {"none", "connect", "liveness", "metrics"}
MetricRows == {<<None, None, None>>, <<Some(0), Some(0), Some(0)>>,
               <<Some(12), Some(34), Some(5)>>}
StatusEnvs ==
    {[fault |-> "none", metrics |-> m, rt |-> t] : m \in MetricRows, t \in {0, 3}}
    \cup {[fault |-> f, metrics |-> <<None, None, None>>, rt |-> 3] :
             f \in Faults \ {"none"}}

\* str(e) of the exception each fault raises inside get_status.
ErrorText(fault) ==
    CASE fault = "connect" -> "Failed to connect"
      [] fault = "liveness" -> "liveness query failed"
      [] fault = "metrics" -> "metrics query failed"
      [] OTHER -> ""

\* The dictionary both except branches return.
Unavailable(error) ==
    [is_available |-> FALSE, response_time_ms |-> 0, cpu_usage_percent |-> 0,
     memory_usage_percent |-> 0, active_connections |-> 0, error |-> error]

\* float(m) if m else 0
OrZero(m) == IF m = None THEN 0 ELSE m[1]

\* OracleManager.get_status: the whole body, return included, is inside try.
OracleManager_get_status(env) ==
    IF env.fault # "none"
    THEN Some(Unavailable(ErrorText(env.fault)))
    ELSE Some([is_available |-> TRUE, response_time_ms |-> env.rt,
               cpu_usage_percent |-> OrZero(env.metrics[1]),
               memory_usage_percent |-> OrZero(env.metrics[2]),
               active_connections |-> OrZero(env.metrics[3])])

\* SQLServerManager.get_status: the except branch returns the dictionary;
\* the try branch ends after connection.close() with no return statement.
SQLServerManager_get_status(env) ==
    IF env.fault # "none"
    THEN Some(Unavailable(ErrorText(env.fault)))
    ELSE None

\* manager.get_status() of the manager chosen by db_type.
Manager_get_status(db_type, env) ==
    IF db_type = ORACLE
    THEN OracleManager_get_status(env)
    ELSE SQLServerManager_get_status(env)

\* DatabaseStatus(...) built from the dictionary, stamped with the time.
DatabaseStatus(database_id, status, t) ==
    [database_id |-> database_id,
     is_available |-> status.is_available,
     response_time_ms |-> status.response_time_ms,
     cpu_usage_percent |-> status.cpu_usage_percent,
     memory_usage_percent |-> status.memory_usage_percent,
     active_connections |-> status.active_connections,
     last_check |-> t]

\* The response of get_database_status: 404 when the database is absent,
\* 500 when building the result raises (status is None), else the result.
get_database_status_response(database_id, env) ==
    LET database == get(databases, database_id)
        status == Manager_get_status(database[1].db_type, env)
    IN IF database = None
       THEN Response("get_database_status", [id |-> database_id], 404, None)
       ELSE IF status = None
       THEN Response("get_database_status", [id |-> database_id], 500, None)
       ELSE Response("get_database_status", [id |-> database_id], 200,
                     Some(DatabaseStatus(database_id, status[1], now)))

\* get_database_status as it would be if it recorded the check on the
\* instance: last_health_check is stamped before answering.
get_database_status_stamped(database_id, env) ==
    /\ response' = get_database_status_response(database_id, env)
    /\ databases' = {IF d.id = database_id
                     THEN [d EXCEPT !.last_health_check = Some(now)]
                     ELSE d : d \in databases}
    /\ UNCHANGED <<clients, backups, clientSeq, databaseSeq, backupSeq,
                   pc, local, tasks, now, call>>
    /\ UNCHANGED <<monitoring_records, monitoringSeq, sessions>>

\* get_database_status: reads the instance, calls the adapter, answers.
get_database_status(database_id, env) ==
    /\ response' = get_database_status_response(database_id, env)
    /\ UNCHANGED <<store, pc, local, tasks, now, call>>
    /\ UNCHANGED sessions

\* ------------------------------------------------------------------ adapters: perform_backup
\* What the RMAN subprocess does: exits 0, exits non-zero (with or without
\* text on stderr), runs into the timeout, or cannot be started.
BackupEnvs ==
    {[run |-> "exit0", stderr |-> ""],
     [run |-> "nonzero", stderr |-> ""],
     [run |-> "nonzero", stderr |-> "RMAN-00571"],
     [run |-> "timeout", stderr |-> ""],
     [run |-> "oserror", stderr |-> ""]}

\* str(e) of the exception subprocess.run raises.
RunErrorText(run) ==
    IF run = "timeout" THEN "timed out after 3600 seconds" ELSE "No such file or directory"

\* OracleManager.perform_backup, started at start_time and left at end_time.
\* The except branch reads the clock twice after the failure.
OracleManager_perform_backup(env, start_time, end_time) ==
    CASE env.run = "exit0" ->
            [success |-> TRUE, start_time |-> start_time, end_time |-> end_time,
             rman_output |-> "out", backup_path |-> "/backup/oracle/"]
      [] env.run = "nonzero" ->
            [success |-> FALSE, start_time |-> start_time, end_time |-> end_time,
             error_message |-> env.stderr, rman_output |-> "out"]
      [] OTHER ->
            [success |-> FALSE, error_message |-> RunErrorText(env.run),
             start_time |-> end_time, end_time |-> end_time]

\* SQLServerManager defines __init__, get_connection and get_status only.
SQLServerManager_methods == {"get_connection", "get_status"}

\* manager.perform_backup() of the manager chosen by db_type: the Oracle
\* manager returns its dictionary, the SQL Server manager has no such
\* attribute and the call raises AttributeError.
Manager_perform_backup(db_type, env, start_time, end_time) ==
    IF db_type = ORACLE \/ "perform_backup" \in SQLServerManager_methods
    THEN [returned |-> Some(OracleManager_perform_backup(env, start_time, end_time)),
          raised |-> None]
    ELSE [returned |-> None,
          raised |-> Some("'SQLServerManager' object has no attribute 'perform_backup'")]

\* dict.get(key): the value, or None when the key is missing.
dict_get(d, key) == IF key \in DOMAIN d THEN Some(d[key]) ELSE None

\* Backup(...) as perform_backup builds it from the adapter's result.
Backup(id, database_id, backup_result) ==
    [id |-> id,
     database_id |-> database_id,
     backup_type |-> FULL,
     status |-> IF backup_result.success THEN COMPLETED ELSE FAILED,
     backup_path |-> dict_get(backup_result, "backup_path"),
     backup_size_bytes |-> dict_get(backup_result, "size_bytes"),
     start_time |-> dict_get(backup_result, "start_time"),
     end_time |-> dict_get(backup_result, "end_time"),
     error_message |-> dict_get(backup_result, "error_message")]

\* ------------------------------------------------------------------ sessions
\* The session get_db yields to start_backup, after the handler's
\* database_crud.get: it has begun a transaction, get_db's finally has not
\* run, and start_backup is the only code that has used it. stale records a
\* store operation made through it after db.close().
Session ==
    [closed |-> FALSE, in_transaction |-> TRUE, users |-> {"start_backup"}, stale |-> FALSE]

\* A query or a flush through the session: a session that was closed begins
\* a new transaction on a new connection.
Session_execute(s, user) ==
    [s EXCEPT !.users = @ \cup {user}, !.stale = @ \/ s.closed, !.in_transaction = TRUE]

\* db.commit() that succeeds ends the transaction; one that raises leaves the
\* session waiting for a rollback.
Session_commit(s, ok) == [s EXCEPT !.in_transaction = ~ok]

\* db.close()
Session_close(s) == [s EXCEPT !.closed = TRUE, !.in_transaction = FALSE]

\* ------------------------------------------------------------------ backup dispatch
\* A deferred unit of work as background_tasks.add_task records it. caught
\* is the exception its except branch swallowed and rows the ids of the
\* Backup rows it committed.
Task(database_id) ==
    [database_id |-> database_id, pc |-> "scheduled", db_type |-> "", started |-> 0,
     caught |-> None, rows |-> {}]

\* start_backup as it would be if it called perform_backup itself instead
\* of handing it to background_tasks: the work is in the adapter when the
\* handler answers.
start_backup_inline(database_id) ==
    LET database == get(databases, database_id)
    IN /\ IF database = None
          THEN /\ response' = Response("start_backup", [id |-> database_id], 404, None)
               /\ UNCHANGED <<tasks, sessions>>
          ELSE /\ Len(tasks) < MaxTasks
               /\ tasks' = Append(tasks, [Task(database_id) EXCEPT !.pc = "in_adapter",
                                              !.db_type = database[1].db_type])
               /\ sessions' = Append(sessions, Session)
               /\ response' = Response("start_backup", [id |-> database_id], 200,
                      Some([message |-> database[1].name, database_id |-> database_id]))
       /\ UNCHANGED <<store, pc, local, now, call>>

\* start_backup: 404 when absent, else schedule perform_backup and answer.
start_backup(database_id) ==
    LET database == get(databases, database_id)
    IN /\ IF database = None
          THEN /\ response' = Response("start_backup", [id |-> database_id], 404, None)
               /\ UNCHANGED <<tasks, sessions>>
          ELSE /\ Len(tasks) < MaxTasks
               /\ tasks' = Append(tasks, Task(database_id))
               /\ sessions' = Append(sessions, Session)
               /\ response' = Response("start_backup", [id |-> database_id], 200,
                      Some([message |-> database[1].name, database_id |-> database_id]))
       /\ UNCHANGED <<store, pc, local, now, call>>

\* perform_backup as it would be without resolving the instance first: the
\* work goes to the adapter whether or not the database still exists.
perform_backup_begin_unresolved(t) ==
    /\ t \in DOMAIN tasks
    /\ tasks[t].pc = "scheduled"
    /\ tasks' = [tasks EXCEPT ![t].pc = "in_adapter", ![t].started = now,
                              ![t].db_type = ORACLE]
    /\ UNCHANGED <<store, pc, local, now, response, call>>
    /\ UNCHANGED sessions

\* perform_backup up to the adapter call: resolve the instance (return when
\* it is gone), choose the manager, call manager.perform_backup(). A call
\* that raises at once ends in the except branch, which prints the error.
perform_backup_begin(t) ==
    /\ t \in DOMAIN tasks
    /\ tasks[t].pc = "scheduled"
    /\ LET database == get(databases, tasks[t].database_id)
           attempt == Manager_perform_backup(database[1].db_type,
                                             CHOOSE env \in BackupEnvs : TRUE, now, now)
       IN IF database = None
          THEN tasks' = [tasks EXCEPT ![t].pc = "done"]
          ELSE IF attempt.raised = None
          THEN tasks' = [tasks EXCEPT ![t].pc = "in_adapter", ![t].started = now,
                                      ![t].db_type = database[1].db_type]
          ELSE tasks' = [tasks EXCEPT ![t].pc = "done", ![t].caught = attempt.raised]
    /\ sessions' = [sessions EXCEPT ![t] = Session_execute(@, "perform_backup")]
    /\ UNCHANGED <<store, pc, local, now, response, call>>

\* perform_backup as it would be on a store that does not enforce the
\* foreign key of backups.database_id: the row is inserted whether or not the
\* database still exists.
perform_backup_unenforced(t, env) ==
    /\ t \in DOMAIN tasks
    /\ tasks[t].pc = "in_adapter"
    /\ LET backup_result ==
               Manager_perform_backup(tasks[t].db_type, env, tasks[t].started, now).returned[1]
           backup_record == Backup(backupSeq + 1, tasks[t].database_id, backup_result)
       IN /\ backupSeq' = backupSeq + 1
          /\ backups' = backups \cup {backup_record}
          /\ tasks' = [tasks EXCEPT ![t].pc = "done", ![t].started = 0,
                         ![t].db_type = "", ![t].rows = {backup_record.id}]
          /\ sessions' = [sessions EXCEPT ![t] =
                         Session_commit(Session_execute(@, "perform_backup"), TRUE)]
    /\ UNCHANGED <<clients, databases, monitoring_records, clientSeq, databaseSeq,
                   monitoringSeq, pc, local, now, response, call>>

\* perform_backup from the adapter's return: build the Backup row, add and
\* commit it. The INSERT draws the next id; the foreign key on database_id
\* rejects it when the database was deleted meanwhile, and the except branch
\* prints that error too.
perform_backup(t, env) ==
    /\ t \in DOMAIN tasks
    /\ tasks[t].pc = "in_adapter"
    /\ LET backup_result ==
               Manager_perform_backup(tasks[t].db_type, env, tasks[t].started, now).returned[1]
           backup_record == Backup(backupSeq + 1, tasks[t].database_id, backup_result)
       IN /\ backupSeq' = backupSeq + 1
          /\ IF get(databases, tasks[t].database_id) = None
             THEN /\ tasks' = [tasks EXCEPT ![t].pc = "done", ![t].started = 0,
                         ![t].db_type = "", ![t].caught = Some("ForeignKeyViolation")]
                  /\ sessions' = [sessions EXCEPT ![t] =
                         Session_commit(Session_execute(@, "perform_backup"), FALSE)]
                  /\ UNCHANGED backups
             ELSE /\ backups' = backups \cup {backup_record}
                  /\ tasks' = [tasks EXCEPT ![t].pc = "done", ![t].started = 0,
                         ![t].db_type = "", ![t].rows = {backup_record.id}]
                  /\ sessions' = [sessions EXCEPT ![t] =
                         Session_commit(Session_execute(@, "perform_backup"), TRUE)]
    /\ UNCHANGED <<clients, databases, monitoring_records, clientSeq, databaseSeq,
                   monitoringSeq, pc, local, now, response, call>>

\* get_db, the finally branch, for the request that scheduled tasks[t]. The
\* framework runs it once the handler has returned: before the deferred work
\* begins or after it has ended, depending on the framework's version.
get_db_finally(t) ==
    /\ t \in DOMAIN sessions
    /\ ~sessions[t].closed
    /\ tasks[t].pc \in {"scheduled", "done"}
    /\ sessions' = [sessions EXCEPT ![t] = Session_close(@)]
    /\ UNCHANGED <<store, pc, local, tasks, now, response, call>>

\* ------------------------------------------------------------------ the adapters alone
\* One get_status call on a manager of either vendor.
Manager_get_status_call(db_type, env) ==
    /\ call' = Call(db_type, "get_status", env, Some(Manager_get_status(db_type, env)), None)
    /\ UNCHANGED <<store, pc, local, tasks, now, response>>
    /\ UNCHANGED sessions

\* One perform_backup call on a manager of either vendor, begun at start_time
\* and left now.
Manager_perform_backup_call(db_type, env, start_time) ==
    /\ start_time <= now
    /\ LET attempt == Manager_perform_backup(db_type, env, start_time, now)
       IN call' = Call(db_type, "perform_backup", env, attempt.returned, attempt.raised)
    /\ UNCHANGED <<store, pc, local, tasks, now, response>>
    /\ UNCHANGED sessions

\* The clock advances.
Tick ==
    /\ now < MaxTime
    /\ now' = now + 1
    /\ UNCHANGED <<store, pc, local, tasks, response, call>>
    /\ UNCHANGED sessions

Init ==
    /\ clients = {}
    /\ databases = {}
    /\ backups = {}
    /\ clientSeq = 0
    /\ databaseSeq = 0
    /\ backupSeq = 0
    /\ monitoring_records = {}
    /\ monitoringSeq = 0
    /\ sessions = <<>>
    /\ pc = [r \in Reqs |-> "idle"]
    /\ local = [r \in Reqs |-> NoLocal]
    /\ tasks = <<>>
    /\ now = 0
    /\ response = Response("none", [id |-> 0], 0, None)
    /\ call = NoCall

\* The client API of crud.py under concurrent requests, with databases for
\* the clients to own.
NextClients ==
    \/ \E r \in Reqs, name \in Names, is_active \in BOOLEAN :
          create_client_check(r, name, is_active)
    \/ \E r \in Reqs : create_client(r)
    \/ \E r \in Reqs, client_id \in ClientIds, patch \in ClientPatches :
          update_client_get(r, client_id, patch)
    \/ \E r \in Reqs : update_client(r)
    \/ \E r \in Reqs, client_id \in ClientIds : delete_client_get(r, client_id)
    \/ \E r \in Reqs : delete_client(r)
    \/ \E client_id \in ClientIds : create_database(client_id, "db", ORACLE, PRODUCTION)

\* The same with POST /clients served by main.py's create_client as well.
NextClientsMain ==
    \/ NextClients
    \/ \E name \in Names, is_active \in BOOLEAN : main_create_client(name, is_active)

\* Registering databases of both vendors and asking for their status.
NextStatus ==
    \/ main_create_client("a", TRUE)
    \/ \E client_id \in ClientIds, name \in DbNames, db_type \in DatabaseType :
          create_database(client_id, name, db_type, PRODUCTION)
    \/ \E database_id \in DatabaseIds, env \in StatusEnvs :
          get_database_status(database_id, env)

\* The databases the backup scenarios register: one of each vendor, under
\* client 1 (before that client exists, the foreign key rejects them).
BackupScenarioDatabases ==
    {[client_id |-> 1, name |-> "db", db_type |-> ORACLE, environment |-> PRODUCTION],
     [client_id |-> 1, name |-> "erp", db_type |-> SQLSERVER, environment |-> PRODUCTION]}

\* The RMAN outcomes the backup scenarios run into: one per branch of
\* OracleManager.perform_backup.
BackupScenarioEnvs ==
    {[run |-> "exit0", stderr |-> ""],
     [run |-> "nonzero", stderr |-> "RMAN-00571"],
     [run |-> "timeout", stderr |-> ""]}

\* Registering and deleting the databases of one client while backups are
\* requested and run.
NextBackup ==
    \/ clients = {} /\ main_create_client("a", TRUE)
    \/ \E d \in BackupScenarioDatabases : create_database(d.client_id, d.name, d.db_type, d.environment)
    \/ \E database_id \in DatabaseIds : delete_database_get(1, database_id)
    \/ delete_database(1)
    \/ \E database_id \in DatabaseIds : start_backup(database_id)
    \/ \E t \in 1..MaxTasks : perform_backup_begin(t)
    \/ \E t \in 1..MaxTasks, env \in BackupScenarioEnvs : perform_backup(t, env)

\* The two managers called directly, over every behaviour of the engine.
NextAdapters ==
    \/ \E db_type \in DatabaseType, env \in StatusEnvs :
          Manager_get_status_call(db_type, env)
    \/ \E db_type \in DatabaseType, env \in BackupEnvs, start_time \in 0..MaxTime :
          Manager_perform_backup_call(db_type, env, start_time)
    \/ Tick

\* Clients, their databases and the backups of those, created and deleted
\* in every order. Databases are registered under client 1 or 2 (which may
\* or may not exist then), client 1 and databases 1 and 2 are the ones
\* deleted and backed up.
NextIntegrity ==
    \/ main_create_client("a", TRUE)
    \/ \E client_id \in {1, 2} : create_database(client_id, "db", ORACLE, PRODUCTION)
    \/ delete_client_get(1, 1)
    \/ delete_client(1)
    \/ \E database_id \in {1, 2} : delete_database_get(1, database_id)
    \/ delete_database(1)
    \/ \E database_id \in {1, 2} : start_backup(database_id)
    \/ \E t \in 1..MaxTasks : perform_backup_begin(t)
    \/ \E t \in 1..MaxTasks : perform_backup(t, [run |-> "exit0", stderr |-> ""])

\* Databases of client 1 registered, updated by concurrent requests and
\* deleted.
NextUpdate ==
    \/ main_create_client("a", TRUE)
    \/ create_database(1, "db", ORACLE, PRODUCTION)
    \/ \E r \in Reqs, database_id \in DatabaseIds, patch \in DatabasePatches :
          update_database_get(r, database_id, patch)
    \/ \E r \in Reqs : update_database(r)
    \/ \E database_id \in DatabaseIds : delete_database_get(1, database_id)
    \/ delete_database(1)

\* Clients created by both create_client handlers and deleted, databases of
\* both vendors registered under any client id.
NextCreate ==
    \/ \E name \in Names, is_active \in BOOLEAN : create_client_check(1, name, is_active)
    \/ create_client(1)
    \/ \E name \in Names, is_active \in BOOLEAN : main_create_client(name, is_active)
    \/ \E client_id \in ClientIds : delete_client_get(1, client_id)
    \/ delete_client(1)
    \/ \E client_id \in ClientIds, db_type \in DatabaseType :
          create_database(client_id, "db", db_type, PRODUCTION)

\* One client and its two databases, polled hour after hour and asked for
\* their metrics.
NextPerformance ==
    \/ clients = {} /\ main_create_client("a", TRUE)
    \/ databaseSeq < 2 /\ create_database(1, "db", ORACLE, PRODUCTION)
    \/ \E database_id \in {1, 2} : poll(database_id)
    \/ Tick
    \/ \E database_id \in {1, 2}, hours \in Hours :
          get_performance_metrics(database_id, hours)

\* Databases of both vendors and two environments under either client,
\* listed with every combination of filters.
NextList ==
    \/ main_create_client("a", TRUE)
    \/ \E client_id \in ClientIds, db_type \in DatabaseType,
            environment \in {STAGING, PRODUCTION} :
          create_database(client_id, "db", db_type, environment)
    \/ \E skip \in SkipParams, limit \in LimitParams, db_type \in DbTypeParams,
            environment \in EnvironmentParams, client_id \in ClientIdParams :
          get_databases(skip, limit, db_type, environment, client_id)

\* Backups requested and run while the requests that scheduled them end and
\* get_db closes their sessions, and while databases are deleted.
NextSessions ==
    \/ main_create_client("a", TRUE)
    \/ \E d \in BackupScenarioDatabases : create_database(d.client_id, d.name, d.db_type, d.environment)
    \/ \E database_id \in DatabaseIds : delete_database_get(1, database_id)
    \/ delete_database(1)
    \/ \E database_id \in DatabaseIds : start_backup(database_id)
    \/ \E t \in 1..MaxTasks : get_db_finally(t)
    \/ \E t \in 1..MaxTasks : perform_backup_begin(t)
    \/ \E t \in 1..MaxTasks : perform_backup(t, [run |-> "exit0", stderr |-> ""])

Next == NextClientsMain \/ NextStatus \/ NextBackup \/ NextAdapters \/ NextIntegrity
        \/ NextUpdate \/ NextCreate \/ NextPerformance \/ NextList \/ NextSessions

Spec == Init /\ [][Next]_vars
SpecClients == Init /\ [][NextClients]_vars
SpecClientsMain == Init /\ [][NextClientsMain]_vars
SpecStatus == Init /\ [][NextStatus]_vars
SpecBackup == Init /\ [][NextBackup]_vars
SpecAdapters == Init /\ [][NextAdapters]_vars
SpecIntegrity == Init /\ [][NextIntegrity]_vars
SpecUpdate == Init /\ [][NextUpdate]_vars
SpecCreate == Init /\ [][NextCreate]_vars
SpecPerformance == Init /\ [][NextPerformance]_vars
SpecList == Init /\ [][NextList]_vars
SpecSessions == Init /\ [][NextSessions]_vars

\* ------------------------------------------------------------------ backup dispatch: properties
\* The Backup rows a deferred task committed.
RowsOf(t) == {b \in backups : b.id \in tasks[t].rows}

\* C1: every accepted backup request ends, once its deferred work has
\* finished, with exactly one new Backup row for its database, with status
\* completed or failed, and no row is left scheduled or running.
C1_ExactlyOneRowPerRequest ==
    /\ \A t \in DOMAIN tasks :
          tasks[t].pc = "done" =>
             /\ Cardinality(RowsOf(t)) = 1
             /\ \A b \in RowsOf(t) :
                   b.database_id = tasks[t].database_id /\ b.status \in {COMPLETED, FAILED}
    /\ \A b \in backups : b.status \notin {SCHEDULED, RUNNING}

\* C2: when the adapter's perform_backup call (or the write of the row)
\* raises inside the deferred work, the work ends with a Backup row for that
\* database with status failed and the error text in error_message.
C2_ErrorBecomesFailedRow ==
    \A t \in DOMAIN tasks :
       (tasks[t].pc = "done" /\ tasks[t].caught # None) =>
          \E b \in backups :
             /\ b.database_id = tasks[t].database_id
             /\ b.status = FAILED
             /\ b.error_message = tasks[t].caught

\* C3: a deferred task that resolves its database after the database was
\* deleted ends at once: it never enters the adapter, writes no Backup row,
\* leaves the store as it is, swallows no error and answers nobody.
C3_DeletedDatabaseIsNoOp ==
    [][\A t \in DOMAIN tasks :
          (/\ tasks[t].pc = "scheduled"
           /\ get(databases, tasks[t].database_id) = None
           /\ tasks'[t] # tasks[t])
          => /\ tasks'[t] = [tasks[t] EXCEPT !.pc = "done"]
             /\ tasks'[t].caught = None /\ tasks'[t].rows = {}
             /\ store' = store
             /\ response' = response
             /\ call' = call]_vars

\* C3 happens: a task finished as a no-op on a deleted database.
C3_Witness ==
    \E t \in DOMAIN tasks :
       /\ tasks[t].pc = "done" /\ tasks[t].caught = None /\ tasks[t].rows = {}
       /\ get(databases, tasks[t].database_id) = None
       /\ databaseSeq >= tasks[t].database_id

\* The step answers a POST /databases/{id}/backup.
IsStartBackupStep ==
    /\ response'.op = "start_backup"
    /\ response' # response \/ Len(tasks') # Len(tasks)

\* C8: start_backup on an existing database answers with the id and the name
\* and leaves one more deferred task that has not begun (no adapter call, no
\* row); on an absent id it answers 404 and schedules nothing; in both cases
\* the handler writes nothing to the store.
C8_AckBeforeDeferredWork ==
    [][IsStartBackupStep =>
          LET database == get(databases, response'.req.id)
          IN /\ store' = store
             /\ IF database = None
                THEN response'.code = 404 /\ tasks' = tasks
                ELSE /\ response'.code = 200
                     /\ response'.body = Some([message |-> database[1].name,
                                               database_id |-> database[1].id])
                     /\ Len(tasks') = Len(tasks) + 1
                     /\ SubSeq(tasks', 1, Len(tasks)) = tasks
                     /\ tasks'[Len(tasks')].database_id = database[1].id
                     /\ tasks'[Len(tasks')].pc = "scheduled"
                     /\ tasks'[Len(tasks')].rows = {}]_vars

\* C8 happens: a backup was acknowledged and its work waits, with no row.
C8_Witness ==
    /\ response.op = "start_backup" /\ response.code = 200
    /\ \E t \in DOMAIN tasks :
          tasks[t].pc = "scheduled" /\ tasks[t].database_id = response.req.id
    /\ backups = {}

\* ------------------------------------------------------------------ adapters: properties
StatusKeys == {"is_available", "response_time_ms", "cpu_usage_percent",
               "memory_usage_percent", "active_connections"}

\* C4: get_status of either manager never raises and returns a dictionary
\* with the five status keys; when the connection or a query fails it says
\* unavailable with every number 0 and an error text, otherwise available.
C4_GetStatusAlwaysStructured ==
    call.method = "get_status" =>
       /\ call.raised = None
       /\ call.returned # None
       /\ call.returned[1] # None
       /\ LET status == call.returned[1][1]
          IN /\ StatusKeys \subseteq DOMAIN status
             /\ call.env.fault # "none" =>
                   /\ status.is_available = FALSE
                   /\ status.response_time_ms = 0
                   /\ status.cpu_usage_percent = 0
                   /\ status.memory_usage_percent = 0
                   /\ status.active_connections = 0
                   /\ "error" \in DOMAIN status
             /\ call.env.fault = "none" => status.is_available = TRUE

\* C5: perform_backup of either manager never raises and returns a result
\* with success, start_time <= end_time; success only on exit code 0; on a
\* timeout or a non-zero exit, failure with a non-empty error_message.
C5_PerformBackupAlwaysReports ==
    call.method = "perform_backup" =>
       /\ call.raised = None
       /\ call.returned # None
       /\ LET result == call.returned[1]
          IN /\ {"success", "start_time", "end_time"} \subseteq DOMAIN result
             /\ result.start_time <= result.end_time
             /\ result.success => call.env.run = "exit0"
             /\ call.env.run \in {"timeout", "nonzero"} =>
                   /\ result.success = FALSE
                   /\ "error_message" \in DOMAIN result
                   /\ result.error_message # ""

\* ------------------------------------------------------------------ status request: properties
\* C6: the status request answers 404 for an absent id; for an existing
\* database it answers normally, with is_available false when the engine
\* fails the connection or a query, and never with an internal error while
\* the adapter call does not raise (neither manager's get_status raises).
C6_StatusNeverInternalError ==
    [][\A database_id \in DatabaseIds, env \in StatusEnvs :
          get_database_status(database_id, env) =>
             IF get(databases, database_id) = None
             THEN response'.code = 404
             ELSE /\ response'.code = 200
                  /\ env.fault # "none" => response'.body[1].is_available = FALSE]_vars

\* C7: a status request, whatever it answers, leaves every table and every
\* id sequence of the store as it was.
C7_StatusPersistsNothing ==
    [][(response'.op = "get_database_status" /\ response' # response)
          => store' = store]_vars

\* C7 happens: a status was answered for a database of a store with rows.
C7_Witness ==
    /\ response.op = "get_database_status"
    /\ response.code = 200
    /\ response.body[1].is_available
    /\ get(databases, response.req.id) # None
    /\ clients # {}

\* ------------------------------------------------------------------ clients: properties
\* C9: no two Client rows have the same name.
C9_ClientNamesUnique ==
    \A c1 \in clients, c2 \in clients : c1.name = c2.name => c1.id = c2.id

\* C10: a POST /clients that arrives with the name of an existing active
\* client is answered 400 and leaves the clients as they are; one that
\* arrives with a name no client has is accepted, and its insert adds exactly
\* one row, with that name, and answers 200.
C10_DuplicateNameRejected ==
    [][/\ \A name \in Names, is_active \in BOOLEAN :
             LET arrives == \/ main_create_client(name, is_active)
                            \/ \E r \in Reqs : create_client_check(r, name, is_active)
                 inserted == \E row \in clients' :
                                /\ row.name = name
                                /\ row \notin clients
                                /\ clients' = clients \cup {row}
             IN arrives =>
                   /\ (\E c \in clients : c.name = name /\ c.is_active) =>
                         /\ response' = Response("create_client",
                                 [name |-> name, is_active |-> is_active], 400, None)
                         /\ clients' = clients
                   /\ (\A c \in clients : c.name # name) =>
                         \/ inserted /\ response'.code = 200
                         \/ \E r \in Reqs : pc[r] = "idle" /\ pc'[r] = "create_client"
                                            /\ local'[r].name = name
       /\ \A r \in Reqs :
             create_client(r) =>
                /\ response'.code = 200
                /\ \E row \in clients' :
                      /\ row.name = local[r].name
                      /\ row \notin clients
                      /\ clients' = clients \cup {row}]_vars

\* ------------------------------------------------------------------ referential integrity
\* C11: in every reachable state every Backup row names an existing
\* DatabaseInstance and every DatabaseInstance row names an existing Client.
C11_ReferentialIntegrity ==
    /\ \A b \in backups : get(databases, b.database_id) # None
    /\ \A d \in databases : get(clients, d.client_id) # None

\* C11 happens: a deferred backup finished after its database was deleted
\* and was refused, another one wrote its row, and the delete of a client
\* that owns a database was refused.
C11_Witness ==
    /\ \E t \in DOMAIN tasks : tasks[t].caught = Some("ForeignKeyViolation")
    /\ backups # {}
    /\ response.op = "delete_client" /\ response.code = 500
    /\ \E d \in databases : d.client_id = response.req.id

\* ------------------------------------------------------------------ delete: properties
\* C12: a delete that succeeds leaves no row with that id; a delete of an id
\* that has no row, when the request arrives or when its remove call runs
\* (a concurrent request deleted the row in between), answers not-found,
\* never an exception, and leaves the store as it was.
C12_DeleteAbsentIsNotFound ==
    [][\A r \in Reqs :
          /\ \A id \in ClientIds :
                (delete_client_get(r, id) /\ get(clients, id) = None)
                   => response'.code = 404 /\ store' = store
          /\ \A id \in DatabaseIds :
                (delete_database_get(r, id) /\ get(databases, id) = None)
                   => response'.code = 404 /\ store' = store
          /\ delete_client(r) =>
                IF get(clients, local[r].id) = None
                THEN response'.code = 404 /\ store' = store
                ELSE response'.code = 200 => get(clients', local[r].id) = None
          /\ delete_database(r) =>
                IF get(databases, local[r].id) = None
                THEN response'.code = 404 /\ store' = store
                ELSE response'.code = 200 => get(databases', local[r].id) = None]_vars

\* ------------------------------------------------------------------ update: properties
\* C13: an update of an existing row leaves every field the patch does not
\* name as it was, gives every field the patch names (null included) exactly
\* the patch's value, and changes no other row.
C13_SparsePatch ==
    [][\A r \in Reqs :
          update_database(r) =>
             LET before == get(databases, local[r].id)
                 after == get(databases', local[r].id)
                 patch == local[r].patch
             IN before # None =>
                   /\ after # None
                   /\ \A f \in {"name", "service_name"} :
                         DatabaseInstance_attributes(after[1])[f] =
                            IF f \in DOMAIN patch
                            THEN patch[f]
                            ELSE DatabaseInstance_attributes(before[1])[f]
                   /\ \A f \in DOMAIN before[1] \ {"name", "service_name"} :
                         after[1][f] = before[1][f]
                   /\ databases' \ {after[1]} = databases \ {before[1]}
                   /\ clients' = clients /\ backups' = backups]_vars

\* ------------------------------------------------------------------ create: properties
\* The step created one row in table: it answers 200 with a row whose id no
\* row of the table had, get of that id yields the row, and the rows the
\* table had are all still there, unchanged.
Created(table, table_after) ==
    /\ response'.code = 200
    /\ response'.body # None
    /\ \A row \in table : row.id # response'.body[1].id
    /\ get(table_after, response'.body[1].id) = response'.body
    /\ table_after = table \cup {response'.body[1]}

\* C14: a create with a valid payload returns a row with a fresh id, get of
\* that id yields a row equal to the payload on every input field, and the
\* rows that existed before are unchanged.
C14_CreateThenGet ==
    [][/\ \A name \in Names, is_active \in BOOLEAN :
             main_create_client(name, is_active) =>
                /\ Created(clients, clients')
                /\ get(clients', response'.body[1].id)[1].name = name
                /\ get(clients', response'.body[1].id)[1].is_active = is_active
                /\ databases' = databases
       /\ \A r \in Reqs :
             create_client(r) =>
                /\ Created(clients, clients')
                /\ get(clients', response'.body[1].id)[1].name = local[r].name
                /\ get(clients', response'.body[1].id)[1].is_active = local[r].is_active
                /\ databases' = databases
       /\ \A client_id \in ClientIds, name \in DbNames, db_type \in DatabaseType,
               environment \in Environment :
             (create_database(client_id, name, db_type, environment)
                 /\ get(clients, client_id) # None) =>
                /\ Created(databases, databases')
                /\ LET row == get(databases', response'.body[1].id)[1]
                   IN /\ row.client_id = client_id
                      /\ row.name = name
                      /\ row.db_type = db_type
                      /\ row.environment = environment
                /\ clients' = clients]_vars

\* C14 happens: a second client was created and can be read back, next to
\* the first one.
C14_Witness ==
    /\ response.op = "create_client" /\ response.code = 200
    /\ response.body[1].id = 2
    /\ get(clients, 2) = response.body
    /\ get(clients, 1) # None
    /\ databases # {}

C16_FirstSuppliedFilterWins ==
    [][\A skip \in SkipParams, limit \in LimitParams, db_type \in DbTypeParams,
          environment \in EnvironmentParams, client_id \in ClientIdParams :
          get_databases(skip, limit, db_type, environment, client_id) =>
             /\ response'.code = 200
             /\ response'.body =
                   Some(IF client_id # None
                        THEN {d \in databases : Some(d.client_id) = client_id}
                        ELSE IF db_type # None
                        THEN {d \in databases : Some(d.db_type) = db_type}
                        ELSE IF environment # None
                        THEN {d \in databases : Some(d.environment) = environment}
                        ELSE get_multi(databases, skip, limit))]_vars

\* ------------------------------------------------------------------ sessions: properties
\* C17: every session is used by one request or one deferred unit of work
\* only (the deferred backup has a session of its own), and once the request
\* it was opened for has ended and the work using it is done, it holds no
\* open transaction.
C17_SessionScopedAndReleased ==
    \A t \in DOMAIN sessions :
       /\ Cardinality(sessions[t].users) <= 1
       /\ (sessions[t].closed /\ tasks[t].pc = "done") => ~sessions[t].in_transaction

\* C19: in every ordering of get_db's close and the deferred work, no store
\* operation of perform_backup goes through a session that was closed.
C19_NoUseAfterClose ==
    \A t \in DOMAIN sessions : ~sessions[t].stale

\* ------------------------------------------------------------------ concurrent backups: properties
\* C18: backups of one database do not exclude each other: a scheduled
\* deferred work can always begin, whatever the others are doing, and two
\* requests for one database that still exists, once both works are done,
\* have each written a Backup row of their own.
C18_ConcurrentBackupsEachWriteARow ==
    /\ \A t \in DOMAIN tasks :
          tasks[t].pc = "scheduled" => ENABLED perform_backup_begin(t)
    /\ \A t1, t2 \in DOMAIN tasks :
          (/\ t1 # t2
           /\ tasks[t1].database_id = tasks[t2].database_id
           /\ tasks[t1].pc = "done" /\ tasks[t2].pc = "done"
           /\ get(databases, tasks[t1].database_id) # None)
          => /\ Cardinality(RowsOf(t1)) = 1
             /\ Cardinality(RowsOf(t2)) = 1
             /\ RowsOf(t1) \cap RowsOf(t2) = {}

====
